---- MODULE Spec2Model ----
(***************************************************************************)
(* Model of the detection distribution pipeline of BratSiemens:            *)
(*   - DataStorage (ble_detection_app/data_storage.py): the dual-channel   *)
(*     latest-value + bounded-history store,                               *)
(*   - FlaskServer.receive_data / clear_data (flask_server.py): the ingest *)
(*     handler, one execution context per inbound request,                 *)
(*   - BLEHandler (ble_handler.py, imported by flask_server.py; its code   *)
(*     is not among the source files): the actuator dispatcher, modelled   *)
(*     from section 4.3 of the specification,                              *)
(*   - FlaskServer.get_data / get_status and the requests of the UI        *)
(*     (streamlit_ui.py): the GET routes and the monitor polling them,     *)
(*   - main and command_listener of raspi/raspi_detection_sender.py: the   *)
(*     producer's capture loop in its two modes.                           *)
(***************************************************************************)
EXTENDS Integers, Sequences, FiniteSets, TLC

\* ---------------------------------------------------------------- bounds
MaxSubmits == 2     \* POST /data requests over a run of Spec
MaxCommands == 3    \* payloads over a run of SpecDispatch and of SpecCount
MaxPosts == 1       \* POST /data requests over a run of SpecMonitored
MaxClock == 1       \* number of distinct later readings of time.time()
MaxStores == 102    \* direct store_data calls per channel in SpecStore
MaxDetections == 2  \* longest detection list a reader's appends build
MaxSide == 2        \* largest width and height of a cropped image, in pixels
MaxBoxes == 1       \* most boxes the detector returns for one image
MaxToggles == 2     \* most 'raw' commands between two reads of the flag

\* ------------------------------------------------------ program constants
max_history == 100  \* DataStorage._max_history

Threads == {"t1", "t2"}  \* request execution contexts of the threaded server

VARIABLES
    latest_data,            \* DataStorage._latest_data ({} is Empty)
    latest_raw_data,        \* DataStorage._latest_raw_data
    detection_history,      \* DataStorage._detection_history
    raw_history,            \* DataStorage._raw_history
    clock,                  \* last value returned by time.time()
    data_store_available,   \* flask_server.data_store is not None
    ble_available,          \* FlaskServer.ble_handler is not None
    pc,                     \* per request context: position in receive_data
    content,                \* per request context: request.get_json()
    request_json,           \* per request context: request.is_json
    stored,                 \* per request context: store_data(content) ran
    handoff,                \* per request context: outcome of send_data
    response,               \* per request context: the response returned
    submits,                \* number of POST /data requests so far
    link,                   \* dispatcher: connected | disconnected
    activity,               \* dispatcher: idle | dispatching
    pending,                \* dispatcher: the pending slot (set of commands)
    inflight,               \* commands whose send is in progress
    sent,                   \* history: commands in the order their send began
    overwritten,            \* history: commands replaced in the pending slot
    lastSubmitted,          \* history: last command handed to the dispatcher
    failed,                 \* history: commands whose send failed
    stores_processed,       \* history: payloads stored to processed since Clear
    stores_raw,             \* history: payloads stored to raw since Clear
    snapshot,               \* in-process reader: value of get_latest_*()
    history_snapshot,       \* in-process reader: value of get_*history()
    lock,                   \* DataStorage._lock: "free" or the holding thread
    call,                   \* per thread: its position inside a DataStorage
                            \* method and the method's argument
    send_raw_mode,          \* raspi sender: the global mode flag
    listening,              \* raspi sender: command_listener is in its loop
    main,                   \* raspi sender: position in main's loop
    frame,                  \* raspi sender: cropper.capture_frame()
    cropped,                \* raspi sender: cropper.get_cropped_image(frame)
    res,                    \* raspi sender: boxes of model(cropped)
    dets,                   \* raspi sender: the list built from res
    payload,                \* raspi sender: payload send_image_data posted
                            \* in this loop iteration
    iteration,              \* history: what this loop iteration has done
    sampled,                \* history: the flag at main's last two reads
                            \* of it and the 'raw' commands around them
    status,                 \* get_status: position and locals
    http                    \* monitor: the last response to its GET

storeVars == <<latest_data, latest_raw_data, detection_history, raw_history>>
logVars == <<stores_processed, stores_raw>>
envVars == <<data_store_available, ble_available>>
reqVars == <<pc, content, request_json, stored, handoff, response, submits>>
bleVars ==
    <<link, activity, pending, inflight, sent, overwritten, lastSubmitted, failed>>
readerVars == <<snapshot, history_snapshot>>
lockVars == <<lock, call>>
producerVars ==
    <<send_raw_mode, listening, main, frame, cropped, res, dets, payload,
      iteration, sampled>>
monitorVars == <<status, http>>
auxVars == <<readerVars, lockVars, producerVars, monitorVars>>
vars == <<storeVars, logVars, clock, envVars, reqVars, bleVars, auxVars>>

\* ------------------------------------------------------------- payloads
\* A JSON object posted to /data.  seq is the sequence marker that tells
\* payloads apart; image says whether the image field is present;
\* raw_image is "true", "false" or "absent"; detections is "list" (of
\* ndet records), "number" (a JSON value without a length) or "absent";
\* timestamp.src is "producer", "receipt" or "absent".
Empty == [seq |-> 0, image |-> FALSE, raw_image |-> "absent",
          detections |-> "absent", ndet |-> 0,
          timestamp |-> [src |-> "absent", t |-> 0]]

ProducerTimestamp == [src |-> "producer", t |-> 0]
NoTimestamp == [src |-> "absent", t |-> 0]

\* The payload send_image_data builds in processed mode.
ProcessedPayload(n) ==
    [seq |-> n, image |-> TRUE, raw_image |-> "false", detections |-> "list",
     ndet |-> 1, timestamp |-> ProducerTimestamp]

\* The payload send_image_data builds in raw mode.
RawPayload(n) ==
    [seq |-> n, image |-> TRUE, raw_image |-> "true", detections |-> "list",
     ndet |-> 0, timestamp |-> ProducerTimestamp]

\* A JSON object without the image field (and without raw_image).
NoImagePayload(n) ==
    [seq |-> n, image |-> FALSE, raw_image |-> "absent", detections |-> "list",
     ndet |-> 2, timestamp |-> NoTimestamp]

\* A JSON object whose detections field is a number.
BadDetectionsPayload(n) ==
    [seq |-> n, image |-> TRUE, raw_image |-> "absent", detections |-> "number",
     ndet |-> 0, timestamp |-> NoTimestamp]

\* The payloads the producer builds.
\* A JSON object without the detections field.
NoDetectionsPayload(n) ==
    [seq |-> n, image |-> TRUE, raw_image |-> "absent",
     detections |-> "absent", ndet |-> 0, timestamp |-> NoTimestamp]

ProducerPayloads(n) == {ProcessedPayload(n), RawPayload(n)}

\* The JSON objects a client may post.
Payloads(n) ==
    ProducerPayloads(n) \cup {NoImagePayload(n), BadDetectionsPayload(n)}

\* ---------------------------------------------------------- DataStorage
\* data.get('raw_image', False), as a truth value
IsRawNever(data) == FALSE
IsRaw(data) == data.raw_image = "true"

\* data['timestamp'] = time.time()
Stamp(data, now) == [data EXCEPT !.timestamp = [src |-> "receipt", t |-> now]]

\* history.append(data); if len(history) > max_history: history.pop(0)
PushNoEvict(history, data) == Append(history, data)
PushDropNewest(history, data) ==
    IF Len(history) + 1 > max_history THEN history ELSE Append(history, data)
Push(history, data) ==
    LET h == Append(history, data)
    IN  IF Len(h) > max_history THEN Tail(h) ELSE h

\* the value the channel's latest takes in store_data
NewLatestKeepFirst(old, data) == IF old = Empty THEN data ELSE old
NewLatest(old, data) == data

\* DataStorage.store_data(data), the call taking place at time now
store_data(data, now) ==
    LET d == Stamp(data, now)
    IN  /\ clock' = now
        /\ IF IsRaw(d)
           THEN /\ latest_raw_data' = NewLatest(latest_raw_data, d)
                /\ raw_history' = Push(raw_history, d)
                /\ stores_raw' = Append(stores_raw, d)
                /\ UNCHANGED <<latest_data, detection_history, stores_processed>>
           ELSE /\ latest_data' = NewLatest(latest_data, d)
                /\ detection_history' = Push(detection_history, d)
                /\ stores_processed' = Append(stores_processed, d)
                /\ UNCHANGED <<latest_raw_data, raw_history, stores_raw>>

\* DataStorage.clear_data()
clear_data_keep_raw ==
    /\ latest_data' = Empty
    /\ detection_history' = <<>>
    /\ stores_processed' = <<>>
    /\ UNCHANGED <<latest_raw_data, raw_history, stores_raw>>
clear_data ==
    /\ latest_data' = Empty
    /\ latest_raw_data' = Empty
    /\ detection_history' = <<>>
    /\ raw_history' = <<>>
    /\ stores_processed' = <<>>
    /\ stores_raw' = <<>>

get_latest_data == latest_data
get_latest_raw_data == latest_raw_data
get_history == detection_history
get_raw_history == raw_history

\* len(data.get('detections', [])): the length of the list, 0 when the
\* field is absent, and a TypeError when the field is a number.
LenDetections(data) ==
    IF data.detections = "number" THEN [raised |-> TRUE, value |-> 0]
    ELSE [raised |-> FALSE,
          value |-> IF data.detections = "list" THEN data.ndet ELSE 0]

\* DataStorage.get_detection_count()
get_detection_count_of_raw == LenDetections(latest_raw_data)
get_detection_count == LenDetections(latest_data)

\* time.time() never goes back; MaxClock caps the readings told apart
Now == {t \in {clock, clock + 1} : t <= MaxClock}

\* ------------------------------------------- BLEHandler (the dispatcher)
\* The dispatcher sends at once only when connected and idle.
CanSendNowAlways == TRUE
CanSendNow == link = "connected" /\ activity = "idle"

\* The pending slot after a submission that cannot be sent at once.
SlotQueue(slot, cmd) == slot \cup {cmd}
SlotAfterSubmit(slot, cmd) == {cmd}

\* A send of cmd begins.
StartSend(cmd, others) ==
    /\ inflight' = others \cup {cmd}
    /\ sent' = Append(sent, cmd)
    /\ activity' = "dispatching"
    /\ pending' = {}

\* BLEHandler.send_data(cmd): the hand-off of a command to the dispatcher.
send_data(cmd) ==
    /\ lastSubmitted' = cmd
    /\ IF CanSendNow
       THEN /\ StartSend(cmd, inflight)
            /\ UNCHANGED <<link, overwritten, failed>>
       ELSE /\ pending' = SlotAfterSubmit(pending, cmd)
            /\ overwritten' = overwritten \cup pending
            /\ UNCHANGED <<link, activity, inflight, sent, failed>>

\* The send of command c is acknowledged by the actuator.
SendAck(c) ==
    /\ c \in inflight
    /\ link' = "connected"
    /\ IF pending # {}
       THEN StartSend(CHOOSE p \in pending : TRUE, inflight \ {c})
       ELSE /\ inflight' = inflight \ {c}
            /\ activity' = IF inflight \ {c} = {} THEN "idle" ELSE activity
            /\ UNCHANGED <<pending, sent>>
    /\ UNCHANGED <<overwritten, lastSubmitted, failed>>
    /\ UNCHANGED <<storeVars, logVars, clock, envVars, reqVars, auxVars>>

\* The link state after a send failed or timed out.
LinkAfterFailureKeep == link
LinkAfterFailure == "disconnected"

\* The send of command c fails or times out.
SendFail(c) ==
    /\ c \in inflight
    /\ link' = LinkAfterFailure
    /\ inflight' = inflight \ {c}
    /\ activity' = IF inflight \ {c} = {} THEN "idle" ELSE activity
    /\ failed' = failed \cup {c}
    /\ UNCHANGED <<pending, sent, overwritten, lastSubmitted>>
    /\ UNCHANGED <<storeVars, logVars, clock, envVars, reqVars, auxVars>>

\* The external link signals that the actuator is reachable again.
Reconnect ==
    /\ link = "disconnected"
    /\ link' = "connected"
    /\ IF pending # {} /\ activity = "idle"
       THEN StartSend(CHOOSE p \in pending : TRUE, inflight)
       ELSE UNCHANGED <<activity, pending, inflight, sent>>
    /\ UNCHANGED <<overwritten, lastSubmitted, failed>>
    /\ UNCHANGED <<storeVars, logVars, clock, envVars, reqVars, auxVars>>

\* ------------------------------------------------- FlaskServer handlers
NoResponse == [code |-> 0, status |-> "none", received_count |-> 0]
Success(n) == [code |-> 200, status |-> "success", received_count |-> n]
Error(c) == [code |-> c, status |-> "error", received_count |-> 0]

\* POST /data with a body that is not JSON: lines 48-49.
receive_data_not_json(t, limit) ==
    /\ pc[t] = "idle"
    /\ submits < limit
    /\ submits' = submits + 1
    /\ request_json' = [request_json EXCEPT ![t] = FALSE]
    /\ content' = [content EXCEPT ![t] = Empty]
    /\ stored' = [stored EXCEPT ![t] = FALSE]
    /\ handoff' = [handoff EXCEPT ![t] = "none"]
    /\ response' = [response EXCEPT ![t] = Error(415)]
    /\ UNCHANGED <<pc, storeVars, logVars, clock, envVars, bleVars, auxVars>>

\* POST /data with a JSON object: lines 48-56, up to and including
\* data_store.store_data(content), which stamps content in place.  The
\* body is one of bodies; limit caps the number of requests of a run.
receive_data_store(t, bodies, limit) ==
    /\ pc[t] = "idle"
    /\ submits < limit
    /\ submits' = submits + 1
    /\ \E body \in bodies, now \in Now :
          /\ IF data_store_available
             THEN /\ store_data(body, now)
                  /\ content' = [content EXCEPT ![t] = Stamp(body, now)]
             ELSE /\ content' = [content EXCEPT ![t] = body]
                  /\ UNCHANGED <<storeVars, logVars, clock>>
    /\ request_json' = [request_json EXCEPT ![t] = TRUE]
    /\ stored' = [stored EXCEPT ![t] = data_store_available]
    /\ handoff' = [handoff EXCEPT ![t] = "none"]
    /\ response' = [response EXCEPT ![t] = NoResponse]
    /\ pc' = [pc EXCEPT ![t] = "ble"]
    /\ UNCHANGED <<envVars, bleVars, auxVars>>

\* Lines 58-62 and, when send_data raises, 68-70.
receive_data_ble(t) ==
    /\ pc[t] = "ble"
    /\ IF ble_available
       THEN \/ /\ send_data(content[t].seq)
               /\ handoff' = [handoff EXCEPT ![t] = "ok"]
               /\ pc' = [pc EXCEPT ![t] = "reply"]
               /\ UNCHANGED response
            \/ /\ handoff' = [handoff EXCEPT ![t] = "fault"]
               /\ response' = [response EXCEPT ![t] = Error(500)]
               /\ pc' = [pc EXCEPT ![t] = "idle"]
               /\ UNCHANGED bleVars
       ELSE /\ handoff' = [handoff EXCEPT ![t] = "skipped"]
            /\ pc' = [pc EXCEPT ![t] = "reply"]
            /\ UNCHANGED <<response, bleVars>>
    /\ UNCHANGED <<content, request_json, stored, submits>>
    /\ UNCHANGED <<storeVars, logVars, clock, envVars, auxVars>>

\* May the handler return its response now?
ReplyReadyAfterSend(t) == content[t].seq \notin inflight
ReplyReady(t) == TRUE

\* Lines 64-70: len(content.get('detections', [])) and the response.
receive_data_reply(t) ==
    /\ pc[t] = "reply"
    /\ ReplyReady(t)
    /\ response' = [response EXCEPT ![t] =
          IF content[t].detections = "number" THEN Error(500)
          ELSE Success(IF content[t].detections = "list"
                       THEN content[t].ndet ELSE 0)]
    /\ pc' = [pc EXCEPT ![t] = "idle"]
    /\ UNCHANGED <<content, request_json, stored, handoff, submits>>
    /\ UNCHANGED <<storeVars, logVars, clock, envVars, bleVars, auxVars>>

\* POST /clear: lines 107-118.
clear_request ==
    /\ data_store_available
    /\ clear_data
    /\ UNCHANGED <<clock, envVars, reqVars, bleVars, auxVars>>

\* ------------------------------------------------------- specifications
InitStore ==
    /\ latest_data = Empty
    /\ latest_raw_data = Empty
    /\ detection_history = <<>>
    /\ raw_history = <<>>
    /\ stores_processed = <<>>
    /\ stores_raw = <<>>

InitReader ==
    /\ snapshot = Empty
    /\ history_snapshot = <<>>

NoCall == [op |-> "none", at |-> "none", data |-> Empty]

InitLock ==
    /\ lock = "free"
    /\ call = [t \in Threads |-> NoCall]

\* An absent image (None) and an image of the given shape.
None == [w |-> 0, h |-> 0]
Image(w, h) == [w |-> w, h |-> h]

NoPayload ==
    [image |-> None, detections |-> <<>>, crop_shape |-> <<0, 0>>,
     raw_image |-> FALSE]
NewIteration ==
    [raw |-> FALSE, model_calls |-> 0, posts |-> 0, outcome |-> "none"]

InitProducer ==
    /\ send_raw_mode = FALSE
    /\ listening = TRUE
    /\ main = "capture"
    /\ frame = None
    /\ cropped = None
    /\ res = <<>>
    /\ dets = <<>>
    /\ payload = NoPayload
    /\ iteration = NewIteration
    /\ sampled = [raw |-> FALSE, toggles |-> 0, prev |-> FALSE, between |-> 0]

NoStatus ==
    [at |-> "idle", detection_count |-> [raised |-> FALSE, value |-> 0]]
NoReply ==
    [path |-> "none", code |-> 0, data |-> Empty,
     detection_count |-> 0, timestamp |-> NoTimestamp]

InitMonitor ==
    /\ status = NoStatus
    /\ http = NoReply

InitAux == InitReader /\ InitLock /\ InitProducer /\ InitMonitor

InitRest ==
    /\ data_store_available \in BOOLEAN
    /\ ble_available \in BOOLEAN
    /\ pc = [t \in Threads |-> "idle"]
    /\ content = [t \in Threads |-> Empty]
    /\ request_json = [t \in Threads |-> FALSE]
    /\ stored = [t \in Threads |-> FALSE]
    /\ handoff = [t \in Threads |-> "none"]
    /\ response = [t \in Threads |-> NoResponse]
    /\ submits = 0
    /\ link \in {"connected", "disconnected"}
    /\ activity = "idle"
    /\ pending = {}
    /\ inflight = {}
    /\ sent = <<>>
    /\ overwritten = {}
    /\ lastSubmitted = 0
    /\ failed = {}
    /\ InitAux

\* The server as a whole: the gateway's handlers over the store, with any
\* request body, and the dispatcher over a link that acknowledges every
\* send.  The link's failures are the subject of SpecDispatch.
Init == InitStore /\ InitRest /\ clock = 0 /\ link = "connected"

Next ==
    \/ \E t \in Threads : receive_data_not_json(t, MaxSubmits)
    \/ \E t \in Threads : receive_data_store(t, Payloads(submits + 1), MaxSubmits)
    \/ \E t \in Threads : receive_data_ble(t)
    \/ \E t \in Threads : receive_data_reply(t)
    \/ clear_request
    \/ \E c \in inflight : SendAck(c)

Spec == Init /\ [][Next]_vars

\* A burst of direct calls on the DataStorage object, with sequence
\* markers increasing per channel, long enough to overflow the history.
StoreCall ==
    \E raw \in BOOLEAN, now \in Now :
        LET n == IF raw THEN Len(stores_raw) + 1 ELSE Len(stores_processed) + 1
        IN  /\ n <= MaxStores
            /\ store_data(IF raw THEN RawPayload(n) ELSE ProcessedPayload(n), now)
            /\ UNCHANGED <<envVars, reqVars, bleVars, auxVars>>

ClearCall ==
    clear_data /\ UNCHANGED <<clock, envVars, reqVars, bleVars, auxVars>>

InitBurst ==
    /\ InitStore /\ InitRest /\ clock = MaxClock
    /\ data_store_available /\ ble_available /\ link = "connected"

NextStore == StoreCall \/ ClearCall

SpecStore == InitBurst /\ [][NextStore]_vars

\* The producer's payloads through the gateway to the dispatcher, with the
\* store and the BLE handler both imported, over a link that may be down
\* at the start, may fail a send and may come back.
InitDispatch ==
    /\ InitStore /\ InitRest /\ clock = MaxClock
    /\ data_store_available /\ ble_available

DispatchStep(limit) ==
    \/ \E t \in Threads :
          receive_data_store(t, ProducerPayloads(submits + 1), limit)
    \/ \E t \in Threads : receive_data_ble(t)
    \/ \E t \in Threads : receive_data_reply(t)
    \/ \E c \in inflight : SendAck(c)
    \/ \E c \in inflight : SendFail(c)
    \/ Reconnect

NextDispatch == DispatchStep(MaxCommands)

SpecDispatch == InitDispatch /\ [][NextDispatch]_vars

\* A request's execution context keeps running: each handler step that is
\* enabled is eventually taken.  Nothing obliges the actuator to answer.
NextHandoff == DispatchStep(MaxSubmits)

FairDispatch ==
    /\ InitDispatch /\ [][NextHandoff]_vars
    /\ \A t \in Threads : WF_vars(receive_data_ble(t))
    /\ \A t \in Threads : WF_vars(receive_data_reply(t))

\* ------------------------------------------- in-process readers (aliasing)
\* dict.copy() and list.copy() are shallow.  A payload dict is created once
\* per request (request.get_json()) and is told apart by seq; the store's
\* latest field, its history and the handler's content all refer to that
\* one dict, and the dict refers to one detections list.  The value of
\* get_latest_data() is a new dict that refers to the same detections list;
\* the value of get_history() is a new list of the same dicts.

\* detections.append(d) on a payload's list
AppendDetection(data) == [data EXCEPT !.ndet = @ + 1]
\* del payload['image']
DropImage(data) == [data EXCEPT !.image = FALSE]

Write(data, write) ==
    IF write = "append" THEN AppendDetection(data) ELSE DropImage(data)

\* A write through a reference to object id, seen by a holder of data.
Alias(data, id, write) == IF data.seq = id THEN Write(data, write) ELSE data
AliasAll(history, id, write) ==
    [i \in 1..Len(history) |-> Alias(history[i], id, write)]

\* The write reaches the server's references to object id.
HeapWrite(id, write) ==
    /\ latest_data' = Alias(latest_data, id, write)
    /\ latest_raw_data' = Alias(latest_raw_data, id, write)
    /\ detection_history' = AliasAll(detection_history, id, write)
    /\ raw_history' = AliasAll(raw_history, id, write)
    /\ content' = [t \in Threads |-> Alias(content[t], id, write)]

\* snapshot = data_store.get_latest_data() / get_latest_raw_data()
reader_get_latest ==
    /\ data_store_available
    /\ snapshot' \in {get_latest_data, get_latest_raw_data}
    /\ UNCHANGED history_snapshot
    /\ UNCHANGED <<storeVars, logVars, clock, envVars, reqVars, bleVars>>
    /\ UNCHANGED <<lockVars, producerVars, monitorVars>>

\* history_snapshot = data_store.get_history() / get_raw_history()
reader_get_history ==
    /\ data_store_available
    /\ history_snapshot' \in {get_history, get_raw_history}
    /\ UNCHANGED snapshot
    /\ UNCHANGED <<storeVars, logVars, clock, envVars, reqVars, bleVars>>
    /\ UNCHANGED <<lockVars, producerVars, monitorVars>>

\* del snapshot['image']: a write to the reader's own dict
reader_set_key ==
    /\ snapshot.image
    /\ snapshot' = DropImage(snapshot)
    /\ UNCHANGED history_snapshot
    /\ UNCHANGED <<storeVars, logVars, clock, envVars, reqVars, bleVars>>
    /\ UNCHANGED <<lockVars, producerVars, monitorVars>>

\* history_snapshot.pop(0): a write to the reader's own list
reader_pop_history ==
    /\ history_snapshot # <<>>
    /\ history_snapshot' = Tail(history_snapshot)
    /\ UNCHANGED snapshot
    /\ UNCHANGED <<storeVars, logVars, clock, envVars, reqVars, bleVars>>
    /\ UNCHANGED <<lockVars, producerVars, monitorVars>>

\* snapshot['detections'].append(d): a write to the list the stored
\* payload refers to
reader_append_detection ==
    /\ snapshot.detections = "list"
    /\ snapshot.ndet < MaxDetections
    /\ snapshot' = AppendDetection(snapshot)
    /\ history_snapshot' =
           AliasAll(history_snapshot, snapshot.seq, "append")
    /\ HeapWrite(snapshot.seq, "append")
    /\ UNCHANGED <<pc, request_json, stored, handoff, response, submits>>
    /\ UNCHANGED <<logVars, clock, envVars, bleVars>>
    /\ UNCHANGED <<lockVars, producerVars, monitorVars>>

\* del history_snapshot[i]['image']: a write to a dict the store holds
reader_set_history_key(i) ==
    /\ history_snapshot[i].image
    /\ history_snapshot' =
           AliasAll(history_snapshot, history_snapshot[i].seq, "del")
    /\ HeapWrite(history_snapshot[i].seq, "del")
    /\ UNCHANGED snapshot
    /\ UNCHANGED <<pc, request_json, stored, handoff, response, submits>>
    /\ UNCHANGED <<logVars, clock, envVars, bleVars>>
    /\ UNCHANGED <<lockVars, producerVars, monitorVars>>

ReaderWrite ==
    \/ reader_set_key
    \/ reader_pop_history
    \/ reader_append_detection
    \/ \E i \in DOMAIN history_snapshot : reader_set_history_key(i)

\* The store behind the ingest handler, with a reader in the same process
\* that keeps and writes to the values the accessors returned.
InitReaders ==
    /\ InitStore /\ InitRest /\ clock = MaxClock
    /\ data_store_available /\ ~ble_available /\ link = "connected"

NextReaders ==
    \/ receive_data_store("t1", ProducerPayloads(submits + 1), MaxSubmits)
    \/ receive_data_ble("t1")
    \/ receive_data_reply("t1")
    \/ clear_request
    \/ reader_get_latest
    \/ reader_get_history
    \/ ReaderWrite

SpecReaders == InitReaders /\ [][NextReaders]_vars

\* ------------------------------------- DataStorage, statement by statement
\* Every method body is one `with self._lock:` block.  Here each statement
\* of a body is a step of its own, so that threads interleave wherever the
\* lock lets them.

\* with self._lock: (entry)
AcquireUnlocked(t) == UNCHANGED lock
Acquire(t) == lock = "free" /\ lock' = t

\* with self._lock: (exit)
Release(t) ==
    /\ call[t].at = "exit"
    /\ lock' = "free"
    /\ call' = [call EXCEPT ![t] = NoCall]
    /\ UNCHANGED <<storeVars, logVars, clock, envVars, reqVars, bleVars>>
    /\ UNCHANGED <<readerVars, producerVars, monitorVars>>

At(t, op, at) == call[t].op = op /\ call[t].at = at
Goto(t, at) == call' = [call EXCEPT ![t].at = at]

\* data_store.store_data(data): the call, up to taking the lock
store_data_enter(t, limit) ==
    /\ call[t] = NoCall
    /\ submits < limit
    /\ submits' = submits + 1
    /\ Acquire(t)
    /\ \E data \in ProducerPayloads(submits + 1) :
           call' = [call EXCEPT ![t] =
                       [op |-> "store_data", at |-> "timestamp", data |-> data]]
    /\ UNCHANGED <<pc, content, request_json, stored, handoff, response>>
    /\ UNCHANGED <<storeVars, logVars, clock, envVars, bleVars>>
    /\ UNCHANGED <<readerVars, producerVars, monitorVars>>

\* data['timestamp'] = time.time()
store_data_timestamp(t) ==
    /\ At(t, "store_data", "timestamp")
    /\ \E now \in Now :
        LET d == Stamp(call[t].data, now) IN
            /\ clock' = now
            /\ call' = [call EXCEPT ![t].data = d, ![t].at = "latest"]
            /\ IF IsRaw(d)
               THEN stores_raw' = Append(stores_raw, d)
                    /\ UNCHANGED stores_processed
               ELSE stores_processed' = Append(stores_processed, d)
                    /\ UNCHANGED stores_raw
    /\ UNCHANGED <<lock, storeVars, envVars, reqVars, bleVars>>
    /\ UNCHANGED <<readerVars, producerVars, monitorVars>>

\* self._latest_raw_data = data / self._latest_data = data
store_data_latest(t) ==
    /\ At(t, "store_data", "latest")
    /\ IF IsRaw(call[t].data)
       THEN latest_raw_data' = NewLatest(latest_raw_data, call[t].data)
            /\ UNCHANGED latest_data
       ELSE latest_data' = NewLatest(latest_data, call[t].data)
            /\ UNCHANGED latest_raw_data
    /\ Goto(t, "append")
    /\ UNCHANGED <<detection_history, raw_history>>
    /\ UNCHANGED <<lock, logVars, clock, envVars, reqVars, bleVars>>
    /\ UNCHANGED <<readerVars, producerVars, monitorVars>>

\* self._raw_history.append(data) / self._detection_history.append(data)
store_data_append(t) ==
    /\ At(t, "store_data", "append")
    /\ IF IsRaw(call[t].data)
       THEN raw_history' = Append(raw_history, call[t].data)
            /\ UNCHANGED detection_history
       ELSE detection_history' = Append(detection_history, call[t].data)
            /\ UNCHANGED raw_history
    /\ Goto(t, "pop")
    /\ UNCHANGED <<latest_data, latest_raw_data>>
    /\ UNCHANGED <<lock, logVars, clock, envVars, reqVars, bleVars>>
    /\ UNCHANGED <<readerVars, producerVars, monitorVars>>

\* if len(history) > self._max_history: history.pop(0)
PopOldest(history) ==
    IF Len(history) > max_history THEN Tail(history) ELSE history

store_data_pop(t) ==
    /\ At(t, "store_data", "pop")
    /\ IF IsRaw(call[t].data)
       THEN raw_history' = PopOldest(raw_history)
            /\ UNCHANGED detection_history
       ELSE detection_history' = PopOldest(detection_history)
            /\ UNCHANGED raw_history
    /\ Goto(t, "exit")
    /\ UNCHANGED <<latest_data, latest_raw_data>>
    /\ UNCHANGED <<lock, logVars, clock, envVars, reqVars, bleVars>>
    /\ UNCHANGED <<readerVars, producerVars, monitorVars>>

\* data_store.clear_data(): the call, up to taking the lock
clear_data_enter(t) ==
    /\ call[t] = NoCall
    /\ Acquire(t)
    /\ call' = [call EXCEPT ![t] =
                   [op |-> "clear_data", at |-> "latest", data |-> Empty]]
    /\ UNCHANGED <<storeVars, logVars, clock, envVars, reqVars, bleVars>>
    /\ UNCHANGED <<readerVars, producerVars, monitorVars>>

\* self._latest_data = {}
clear_data_latest(t) ==
    /\ At(t, "clear_data", "latest")
    /\ latest_data' = Empty
    /\ Goto(t, "latest_raw")
    /\ UNCHANGED <<latest_raw_data, detection_history, raw_history>>
    /\ UNCHANGED <<lock, logVars, clock, envVars, reqVars, bleVars>>
    /\ UNCHANGED <<readerVars, producerVars, monitorVars>>

\* self._latest_raw_data = {}
clear_data_latest_raw(t) ==
    /\ At(t, "clear_data", "latest_raw")
    /\ latest_raw_data' = Empty
    /\ Goto(t, "history")
    /\ UNCHANGED <<latest_data, detection_history, raw_history>>
    /\ UNCHANGED <<lock, logVars, clock, envVars, reqVars, bleVars>>
    /\ UNCHANGED <<readerVars, producerVars, monitorVars>>

\* self._detection_history = []
clear_data_history(t) ==
    /\ At(t, "clear_data", "history")
    /\ detection_history' = <<>>
    /\ stores_processed' = <<>>
    /\ Goto(t, "raw_history")
    /\ UNCHANGED <<latest_data, latest_raw_data, raw_history, stores_raw>>
    /\ UNCHANGED <<lock, clock, envVars, reqVars, bleVars>>
    /\ UNCHANGED <<readerVars, producerVars, monitorVars>>

\* self._raw_history = []
clear_data_raw_history(t) ==
    /\ At(t, "clear_data", "raw_history")
    /\ raw_history' = <<>>
    /\ stores_raw' = <<>>
    /\ Goto(t, "exit")
    /\ UNCHANGED <<latest_data, latest_raw_data, detection_history>>
    /\ UNCHANGED stores_processed
    /\ UNCHANGED <<lock, clock, envVars, reqVars, bleVars>>
    /\ UNCHANGED <<readerVars, producerVars, monitorVars>>

\* get_latest_data() / get_latest_raw_data() / get_history() /
\* get_raw_history(): the call, up to taking the lock
Accessors ==
    {"get_latest_data", "get_latest_raw_data", "get_history", "get_raw_history"}

get_enter(t) ==
    /\ call[t] = NoCall
    /\ Acquire(t)
    /\ \E op \in Accessors :
           call' = [call EXCEPT ![t] =
                       [op |-> op, at |-> "return", data |-> Empty]]
    /\ UNCHANGED <<storeVars, logVars, clock, envVars, reqVars, bleVars>>
    /\ UNCHANGED <<readerVars, producerVars, monitorVars>>

\* return self._latest_data.copy() and the like
get_return(t) ==
    /\ call[t].op \in Accessors
    /\ call[t].at = "return"
    /\ snapshot' = CASE call[t].op = "get_latest_data" -> get_latest_data
                     [] call[t].op = "get_latest_raw_data" -> get_latest_raw_data
                     [] OTHER -> snapshot
    /\ history_snapshot' = CASE call[t].op = "get_history" -> get_history
                             [] call[t].op = "get_raw_history" -> get_raw_history
                             [] OTHER -> history_snapshot
    /\ Goto(t, "exit")
    /\ UNCHANGED <<lock, storeVars, logVars, clock, envVars, reqVars, bleVars>>
    /\ UNCHANGED <<producerVars, monitorVars>>

\* Threads calling the store's methods concurrently.
InitLocked ==
    /\ InitStore /\ InitRest /\ clock = MaxClock
    /\ data_store_available /\ ~ble_available /\ link = "connected"

NextLocked ==
    \E t \in Threads :
        \/ store_data_enter(t, MaxSubmits)
        \/ store_data_timestamp(t)
        \/ store_data_latest(t)
        \/ store_data_append(t)
        \/ store_data_pop(t)
        \/ clear_data_enter(t)
        \/ clear_data_latest(t)
        \/ clear_data_latest_raw(t)
        \/ clear_data_history(t)
        \/ clear_data_raw_history(t)
        \/ get_enter(t)
        \/ get_return(t)
        \/ Release(t)

SpecLocked == InitLocked /\ [][NextLocked]_vars

\* ------------------------------------------- raspi_detection_sender.main
\* Pixel coordinates are counted in half pixels wherever the code computes
\* a box centre: corners are whole pixels, so (a + b) / 2 is a whole number
\* of half pixels and the arithmetic is exact.
ToHalfPixels(n) == 2 * n

\* (x1 + x2) / 2, in half pixels
Center(a, b) == a + b

\* h - cy, in half pixels
FlipFromLastRow(h, cy) == ToHalfPixels(h - 1) - cy
Flip(h, cy) == ToHalfPixels(h) - cy

\* The frame of the camera, larger than every crop of it.
CameraFrame == Image(MaxSide + 1, MaxSide + 1)

\* What get_cropped_image can return for a frame: None, or the crop.
Crops(image) ==
    IF image = None THEN {None}
    ELSE {None} \cup {Image(w, h) : w \in 1..MaxSide, h \in 1..MaxSide}

\* The boxes model(cropped) can return: class in ids or not, corners
\* inside the image.
Boxes(image) ==
    [in_ids : BOOLEAN, x1 : {0}, x2 : {0, image.w},
     y1 : 0..image.h, y2 : 0..image.h]
BoxListsUpTo(image, n) ==
    UNION {[1..k -> {b \in Boxes(image) : b.y1 <= b.y2}] : k \in 0..n}
BoxLists(image) == BoxListsUpTo(image, MaxBoxes)

\* Lines 95-109: the list built from the boxes whose class is in ids.
RECURSIVE Detections(_, _)
Detections(boxes, h) ==
    IF boxes = <<>> THEN <<>>
    ELSE LET box == Head(boxes)
             cx == Center(box.x1, box.x2)
             cy == Center(box.y1, box.y2)
         IN  (IF box.in_ids
              THEN <<[center_px |-> <<cx, Flip(h, cy)>>]>>
              ELSE <<>>) \o Detections(Tail(boxes), h)

\* Lines 23-31: the payload send_image_data posts.
PayloadAlwaysProcessed(image, detections, is_raw) ==
    [image |-> image,
     detections |-> detections,
     crop_shape |-> <<image.w, image.h>>,
     raw_image |-> FALSE]
PayloadOf(image, detections, is_raw) ==
    [image |-> image,
     detections |-> IF is_raw THEN <<>> ELSE detections,
     crop_shape |-> <<image.w, image.h>>,
     raw_image |-> is_raw]

\* Lines 33-43: how requests.post can end: status 200, another status, a
\* timeout after 3 s, any other exception.
PostOutcomes == {"ok", "status", "timeout", "exception"}

\* Every outcome is printed and send_image_data returns; main goes on
\* with the statement after the call, which leads to line 118.
AfterPostRetrying(outcome) == IF outcome = "ok" THEN "sleep" ELSE "send"
AfterPost(outcome) == "sleep"

\* send_image_data(image, detections, is_raw): one POST
send_image_data(image, detections, is_raw) ==
    /\ payload' = PayloadOf(image, detections, is_raw)
    /\ \E outcome \in PostOutcomes :
           /\ iteration' = [iteration EXCEPT !.posts = @ + 1,
                                             !.outcome = outcome]
           /\ main' = AfterPost(outcome)

serverVars ==
    <<storeVars, logVars, clock, envVars, reqVars, bleVars, readerVars,
      lockVars, monitorVars>>

\* Line 76: frame = cropper.capture_frame().  Locals of the iteration
\* before (send_image_data's payload among them) are not read again and
\* are dropped here.
capture_frame ==
    /\ main = "capture"
    /\ frame' \in {None, CameraFrame}
    /\ cropped' = None
    /\ res' = <<>>
    /\ dets' = <<>>
    /\ payload' = NoPayload
    /\ iteration' = NewIteration
    /\ main' = "mode"
    /\ UNCHANGED <<send_raw_mode, listening, sampled, serverVars>>

\* Line 78: if send_raw_mode:
read_mode ==
    /\ main = "mode"
    /\ iteration' = [iteration EXCEPT !.raw = send_raw_mode]
    /\ sampled' = [raw |-> send_raw_mode, toggles |-> 0,
                   prev |-> sampled.raw, between |-> sampled.toggles]
    /\ main' = IF send_raw_mode THEN "raw" ELSE "crop"
    /\ UNCHANGED <<send_raw_mode, listening, frame, cropped, res, dets,
                   payload, serverVars>>

\* Lines 80-83: if frame is not None: send_image_data(frame, [], True)
send_raw ==
    /\ main = "raw"
    /\ IF frame # None
       THEN send_image_data(frame, <<>>, TRUE)
       ELSE main' = "sleep" /\ UNCHANGED <<payload, iteration>>
    /\ UNCHANGED <<send_raw_mode, listening, sampled, frame, cropped, res, dets,
                   serverVars>>

\* Lines 86-89: cropped = get_cropped_image(frame); None restarts the loop.
get_cropped_image ==
    /\ main = "crop"
    /\ cropped' \in Crops(frame)
    /\ main' = IF cropped' = None THEN "capture" ELSE "model"
    /\ UNCHANGED <<send_raw_mode, listening, sampled, frame, res, dets, payload,
                   iteration, serverVars>>

\* Line 94: res = model(cropped), a list of at most n boxes
run_model(n) ==
    /\ main = "model"
    /\ res' \in BoxListsUpTo(cropped, n)
    /\ iteration' = [iteration EXCEPT !.model_calls = @ + 1]
    /\ main' = "boxes"
    /\ UNCHANGED <<send_raw_mode, listening, sampled, frame, cropped, dets, payload,
                   serverVars>>

\* Lines 91, 95-109: h from cropped.shape; dets from the boxes
build_dets ==
    /\ main = "boxes"
    /\ dets' = Detections(res, cropped.h)
    /\ main' = "send"
    /\ UNCHANGED <<send_raw_mode, listening, sampled, frame, cropped, res, payload,
                   iteration, serverVars>>

\* Line 116: send_image_data(cropped, dets)
send_processed ==
    /\ main = "send"
    /\ send_image_data(cropped, dets, FALSE)
    /\ UNCHANGED <<send_raw_mode, listening, sampled, frame, cropped, res, dets,
                   serverVars>>

\* Line 118: time.sleep(0.1)
sleep ==
    /\ main = "sleep"
    /\ main' = "capture"
    /\ UNCHANGED <<send_raw_mode, listening, sampled, frame, cropped, res, dets,
                   payload, iteration, serverVars>>

\* command_listener, lines 50-61: 'raw' toggles the flag, 'quit' (or end
\* of input) leaves the listener's loop.
\* send_raw_mode = not send_raw_mode
ToggleSets(flag) == TRUE
Toggle(flag) == ~flag

command_listener(cmd, limit) ==
    /\ listening
    /\ IF cmd = "raw"
       THEN /\ sampled.toggles < limit
            /\ send_raw_mode' = Toggle(send_raw_mode)
            /\ sampled' = [sampled EXCEPT !.toggles = @ + 1]
       ELSE UNCHANGED <<send_raw_mode, sampled>>
    /\ listening' = (cmd # "quit")
    /\ UNCHANGED <<main, frame, cropped, res, dets, payload, iteration,
                   serverVars>>

InitSender == InitStore /\ InitRest /\ clock = 0 /\ link = "connected"
                /\ data_store_available /\ ble_available

\* The statements of main's loop, with a detector that returns at most n
\* boxes.
MainLoop(n) ==
    \/ capture_frame
    \/ read_mode
    \/ send_raw
    \/ get_cropped_image
    \/ run_model(n)
    \/ build_dets
    \/ send_processed
    \/ sleep

\* The producer with the detector's boxes anywhere in the crop and at most
\* one 'raw' command between two reads of the flag.
NextSender ==
    \/ MainLoop(MaxBoxes)
    \/ \E cmd \in {"raw", "quit"} : command_listener(cmd, 1)

SpecSender == InitSender /\ [][NextSender]_vars

\* The main thread is scheduled as long as the process lives.
FairSender == SpecSender /\ WF_vars(MainLoop(MaxBoxes))

\* The producer's control flow: a detector that finds nothing, and up to
\* MaxToggles 'raw' commands between two reads of the flag.
NextModes ==
    \/ MainLoop(0)
    \/ \E cmd \in {"raw", "quit"} : command_listener(cmd, MaxToggles)

SpecModes == InitSender /\ [][NextModes]_vars

\* ------------------------------------------------ FlaskServer GET routes
\* The routes _setup_routes registers.
Routes == {"/data", "/get", "/status", "/clear", "/test"}

\* The GET requests streamlit_ui.py issues.
MonitorPaths == {"/get", "/get_raw", "/status", "/ready"}

Reply(path, code, data, detection_count, timestamp) ==
    [path |-> path, code |-> code, data |-> data,
     detection_count |-> detection_count, timestamp |-> timestamp]

\* {'detections': [], 'message': 'No data store available'}
NoDataStore == [Empty EXCEPT !.detections = "list"]

\* What a call of a DataStorage accessor does to the store: nothing.
accessor_effect_clears == clear_data
accessor_effect == UNCHANGED <<storeVars, logVars>>

otherThanMonitor ==
    <<clock, envVars, reqVars, bleVars, readerVars, lockVars, producerVars>>

\* GET /get: get_data, lines 72-83
get_data ==
    /\ http' = Reply("/get", 200,
                     IF data_store_available THEN get_latest_data
                     ELSE NoDataStore, 0, NoTimestamp)
    /\ IF data_store_available THEN accessor_effect
       ELSE UNCHANGED <<storeVars, logVars>>
    /\ UNCHANGED <<status, otherThanMonitor>>

\* GET of a path no route is registered for: the framework answers 404.
not_found(path) ==
    /\ path \notin Routes
    /\ http' = Reply(path, 404, Empty, 0, NoTimestamp)
    /\ UNCHANGED <<status, storeVars, logVars, otherThanMonitor>>

\* GET /status: get_status, lines 88-94 up to
\* detection_count = data_store.get_detection_count(); without a data
\* store both locals are 0 and the handler answers at once; a TypeError of
\* len() is answered with 500 (lines 103-105).
get_status_count ==
    /\ status.at = "idle"
    /\ IF ~data_store_available
       THEN /\ http' = Reply("/status", 200, Empty, 0, NoTimestamp)
            /\ UNCHANGED <<status, storeVars, logVars>>
       ELSE /\ accessor_effect
            /\ IF get_detection_count.raised
               THEN /\ http' = Reply("/status", 500, Empty, 0, NoTimestamp)
                    /\ UNCHANGED status
               ELSE /\ status' = [at |-> "timestamp",
                                  detection_count |-> get_detection_count]
                    /\ UNCHANGED http
    /\ UNCHANGED otherThanMonitor

\* Lines 91, 96-102: timestamp = get_latest_data().get('timestamp', 0) and
\* the response
get_status_timestamp ==
    /\ status.at = "timestamp"
    /\ accessor_effect
    /\ http' = Reply("/status", 200, Empty, status.detection_count.value,
                     get_latest_data.timestamp)
    /\ status' = NoStatus
    /\ UNCHANGED otherThanMonitor

\* A GET of the monitor, routed by path.
monitor_get(path) ==
    CASE path = "/get" -> get_data
      [] path = "/status" -> get_status_count
      [] OTHER -> not_found(path)

\* The request bodies of SpecMonitored: every shape of Payloads and one
\* without detections.
MonitoredPayloads(n) == Payloads(n) \cup {NoDetectionsPayload(n)}

\* The server with a monitor polling it: one ingest request at a time,
\* any request body, any GET of the monitor.
InitMonitored ==
    InitStore /\ InitRest /\ clock = 0 /\ link = "connected" /\ ble_available

NextMonitored ==
    \/ receive_data_store("t1", MonitoredPayloads(submits + 1), MaxPosts)
    \/ receive_data_ble("t1")
    \/ receive_data_reply("t1")
    \/ clear_request
    \/ \E c \in inflight : SendAck(c)
    \/ \E path \in MonitorPaths : monitor_get(path)
    \/ get_status_timestamp

SpecMonitored == InitMonitored /\ [][NextMonitored]_vars

\* --------------------------------------------- DataStorage, any payload
\* Direct calls of store_data with a payload of any shape, and clear_data.
StoreAnyCall ==
    /\ submits < MaxCommands
    /\ submits' = submits + 1
    /\ \E data \in MonitoredPayloads(submits + 1), now \in Now :
           store_data(data, now)
    /\ UNCHANGED <<pc, content, request_json, stored, handoff, response>>
    /\ UNCHANGED <<envVars, bleVars, auxVars>>

InitCount ==
    /\ InitStore /\ InitRest /\ clock = 0
    /\ data_store_available /\ ble_available /\ link = "connected"

NextCount == StoreAnyCall \/ ClearCall

SpecCount == InitCount /\ [][NextCount]_vars

\* ------------------------------------------ ImageProcessor.draw_detections
\* int(v) for a coordinate v counted in half pixels: the whole pixels of
\* v, truncated toward zero.
ToInt(v) == IF v >= 0 THEN v \div 2 ELSE -((-v) \div 2)

\* y = img.shape[0] - y
FlipBackFromLastRow(rows, y) == rows - 1 - y
FlipBack(rows, y) == rows - y

\* Lines 34-40: where the circle of each detection is drawn, in pixels.
draw_detections(img, detections) ==
    [i \in DOMAIN detections |->
        LET x == ToInt(detections[i].center_px[1])
            y == ToInt(detections[i].center_px[2])
        IN  <<x, FlipBack(img.h, y)>>]

\* ----------------------------------------------------------- properties
Last(s) == s[Len(s)]
Min(a, b) == IF a < b THEN a ELSE b
LastN(s, n) == SubSeq(s, Len(s) - n + 1, Len(s))
LastOrEmpty(s) == IF s = <<>> THEN Empty ELSE Last(s)

\* C1: after any sequence of store_data calls over the two channels,
\* get_latest_data returns the last payload stored to the processed channel
\* and get_latest_raw_data the last payload stored to the raw channel (the
\* payload as store_data holds it, with its receipt time); with nothing
\* stored since the last clear they return the empty payload.
C1_LatestIsLastStored ==
    /\ get_latest_data = LastOrEmpty(stores_processed)
    /\ get_latest_raw_data = LastOrEmpty(stores_raw)

\* Both channels hold a payload, the processed one past eviction.
C1_Witness ==
    /\ Len(stores_processed) > max_history
    /\ Len(stores_raw) > 1
    /\ get_latest_data.seq = Len(stores_processed)
    /\ get_latest_raw_data.seq = Len(stores_raw)

\* C2: in every reachable state the processed history and the raw history
\* each hold at most max_history (100) payloads.
C2_HistoryBounded ==
    /\ Len(detection_history) <= max_history
    /\ Len(raw_history) <= max_history

\* More than max_history payloads were stored to each channel.
C2_Witness ==
    /\ Len(stores_processed) > max_history
    /\ Len(stores_raw) > max_history
    /\ Len(detection_history) = max_history
    /\ Len(raw_history) = max_history

\* C3: eviction is FIFO: after n stores to a channel since the last clear
\* its history is the last min(n, max_history) stored payloads in arrival
\* order, newest last.
C3_HistoryIsFifo ==
    /\ get_history =
          LastN(stores_processed, Min(Len(stores_processed), max_history))
    /\ get_raw_history = LastN(stores_raw, Min(Len(stores_raw), max_history))

\* The scenario: 101 processed stores; the history has 100 elements, its
\* first is payload #2 and the latest is payload #101.
C3_Witness ==
    /\ Len(stores_processed) = 101
    /\ Len(get_history) = 100
    /\ get_history[1].seq = 2
    /\ get_history[100].seq = 101
    /\ get_latest_data.seq = 101

\* The step of request context t in which store_data(content) runs.
StoreStep(t) == pc[t] = "idle" /\ pc'[t] = "ble" /\ stored'[t]

\* C4: a store of a payload with raw_image true leaves the processed
\* channel's latest and history unchanged; a store of a payload with
\* raw_image false or absent leaves the raw channel's unchanged.
C4_ChannelIsolation ==
    [][\A t \in Threads :
          StoreStep(t) =>
             IF content'[t].raw_image = "true"
             THEN UNCHANGED <<latest_data, detection_history>>
             ELSE UNCHANGED <<latest_raw_data, raw_history>>]_vars

\* A raw payload has just been stored while the processed channel holds a
\* payload, or the other way round.
C4_Witness ==
    \E t \in Threads :
        /\ pc[t] = "ble" /\ stored[t]
        /\ latest_data # Empty /\ latest_raw_data # Empty
        /\ \/ content[t].raw_image = "true" /\ latest_raw_data = content[t]
           \/ content[t].raw_image = "absent" /\ latest_data = content[t]

\* The body of request context t is a JSON object without the image field.
LacksImage(t) == request_json[t] /\ content[t].seq # 0 /\ ~content[t].image

\* C5: a POST /data whose payload lacks the image field is rejected with a
\* validation error (a 4xx response) and nothing of it is stored.
C5_MissingImageRejected ==
    \A t \in Threads :
        LacksImage(t) =>
            /\ ~stored[t]
            /\ latest_data # content[t]
            /\ pc[t] = "idle" => response[t].code \in 400..499

\* A step in which a send begins with the command taken from the slot.
SendFromSlot == pending # {} /\ Len(sent') > Len(sent)

\* C6: the dispatcher holds at most one pending command, and it is the one
\* submitted last; a command overwritten in the slot is never sent; when a
\* send begins from the slot (the send before it completed, or the link
\* came back) the command sent is the one submitted last and the slot is
\* empty from then on.
C6_Coalescing ==
    /\ [](Cardinality(pending) <= 1 /\ pending \subseteq {lastSubmitted})
    /\ [](\A i \in 1..Len(sent) : sent[i] \notin overwritten)
    /\ [][SendFromSlot =>
             /\ sent' = Append(sent, lastSubmitted)
             /\ inflight' = {lastSubmitted}
             /\ pending' = {}]_vars

\* A is sent; B and then C are submitted while A is dispatching; A is
\* acknowledged and C, not B, is sent.
C6_Witness ==
    /\ sent = <<1, 3>>
    /\ overwritten = {2}
    /\ failed = {}
    /\ inflight = {3}
    /\ pending = {}

C8_OneInFlight == Cardinality(inflight) <= 1

\* Two requests handled concurrently have both handed their command over
\* while a send is in progress.
C8_Witness ==
    /\ \A t \in Threads : pc[t] = "reply" /\ handoff[t] = "ok"
    /\ Cardinality(inflight) = 1
    /\ pending # {}

\* The hand-off step of request context t succeeds.
HandoffStep(t) == pc[t] = "ble" /\ handoff'[t] = "ok"

\* C9: a failed send leaves the link disconnected; a submission made while
\* disconnected replaces the pending command and starts no send; the
\* reconnection signal sends the last pending command; no command is ever
\* sent twice.
C9_DisconnectedHoldsPending ==
    /\ [][(\E c \in inflight : SendFail(c)) => link' = "disconnected"]_vars
    /\ [][\A t \in Threads :
             HandoffStep(t) /\ link = "disconnected" =>
                /\ pending' = {content[t].seq}
                /\ sent' = sent
                /\ inflight' = inflight]_vars
    /\ [][Reconnect /\ pending # {} =>
             /\ sent' = Append(sent, lastSubmitted)
             /\ inflight' = {lastSubmitted}
             /\ pending' = {}]_vars
    /\ [](\A i, j \in 1..Len(sent) : sent[i] = sent[j] => i = j)

\* The send of A failed, B and then C were submitted while disconnected,
\* and the reconnection signal has sent C.
C9_Witness ==
    /\ failed = {1}
    /\ overwritten = {2}
    /\ sent = <<1, 3>>
    /\ inflight = {3}
    /\ link = "connected"

\* The body of request context t is a payload as the producer builds it.
WellFormed(t) ==
    request_json[t] /\ content[t].image /\ content[t].detections = "list"

\* C10: a request whose (well-formed) payload was stored and whose
\* hand-off to the actuator failed is still answered with success.
C10_FaultKeepsSuccess ==
    \A t \in Threads :
        pc[t] = "idle" /\ WellFormed(t) /\ stored[t] /\ handoff[t] = "fault" =>
            response[t].status = "success"

\* C11: clear_data leaves both channels' latest and history empty and the
\* detection count 0, from any state; a clear of the cleared store changes
\* nothing.
StoreIsEmpty ==
    /\ get_latest_data = Empty
    /\ get_latest_raw_data = Empty
    /\ get_history = <<>>
    /\ get_raw_history = <<>>
    /\ get_detection_count = [raised |-> FALSE, value |-> 0]

C11_ClearEmpties ==
    [][clear_request =>
          /\ StoreIsEmpty'
          /\ StoreIsEmpty => UNCHANGED storeVars]_vars

\* A processed and a raw payload were stored by the two request contexts
\* and the store has been cleared since.
C11_Witness ==
    /\ \A t \in Threads : stored[t]
    /\ \E t \in Threads : content[t].raw_image = "true"
    /\ \E t \in Threads : content[t].raw_image = "false"
    /\ StoreIsEmpty

\* C12: the values of get_latest_data / get_latest_raw_data / get_history /
\* get_raw_history are independent snapshots: no later store_data or
\* clear_data changes a value a reader holds, and no write of the reader to
\* that value (its detection list and the payloads inside a returned
\* history included) changes what the store returns afterwards.
C12_SnapshotsIndependent ==
    [][/\ (\E t \in Threads : StoreStep(t)) \/ clear_request
            => UNCHANGED readerVars
       /\ ReaderWrite
            => UNCHANGED <<get_latest_data, get_latest_raw_data, get_history,
                           get_raw_history, get_detection_count>>]_vars

\* C13: under every interleaving of concurrent store_data, clear_data and
\* accessor calls, whatever an accessor can observe is the outcome of the
\* calls run one after another in the order they took the lock: each
\* channel's history is the payloads stored since the last clear in that
\* order, its latest is the history's last element, and its latest is
\* empty exactly when its history is empty.
Linearized ==
    /\ detection_history =
           LastN(stores_processed, Min(Len(stores_processed), max_history))
    /\ raw_history = LastN(stores_raw, Min(Len(stores_raw), max_history))
    /\ latest_data = LastOrEmpty(detection_history)
    /\ latest_raw_data = LastOrEmpty(raw_history)
    /\ latest_data = Empty <=> detection_history = <<>>
    /\ latest_raw_data = Empty <=> raw_history = <<>>

Observable ==
    \A t \in Threads : call[t].at = "none" \/ call[t].op \in Accessors

C13_Linearized == Observable => Linearized

\* A reader holds the lock after two stores to the processed channel while
\* the other thread waits to store.
C13_Witness ==
    /\ \E t \in Threads : call[t].op \in Accessors /\ lock = t
    /\ Len(detection_history) = 2
    /\ latest_data = detection_history[2]

\* The commands the dispatcher has been given or has sent.
Range(s) == {s[i] : i \in DOMAIN s}
DispatcherCommands == pending \cup inflight \cup Range(sent) \cup {lastSubmitted}

\* C14: only non-raw payloads produce actuator commands: a payload with
\* raw_image true is stored in the raw channel and never handed to the
\* dispatcher, and every accepted payload with raw_image false is handed
\* to it once.
C14_RawNeverDispatched ==
    \A t \in Threads :
        /\ content[t].raw_image = "true" /\ stored[t] =>
              /\ content[t] \notin Range(detection_history)
              /\ handoff[t] \notin {"ok", "fault"}
              /\ content[t].seq \notin DispatcherCommands
        /\ content[t].raw_image = "false" /\ stored[t] /\ ble_available
              /\ pc[t] = "reply" =>
              /\ handoff[t] = "ok"
              /\ content[t].seq \in Range(sent) \cup pending

\* The body of request context t is a JSON object whose detections field
\* is not a list.
DetectionsNotAList(t) == request_json[t] /\ content[t].detections = "number"

\* C15: a POST /data whose detections field is not a list is rejected with
\* a validation error (a 4xx response) and changes nothing: the store does
\* not hold it and the dispatcher is not given it.
C15_BadDetectionsRejected ==
    \A t \in Threads :
        DetectionsNotAList(t) =>
            /\ ~stored[t]
            /\ content[t] \notin Range(detection_history)
            /\ handoff[t] = "none"
            /\ content[t].seq \notin DispatcherCommands
            /\ pc[t] = "idle" => response[t].code \in 400..499

\* The request body a stored payload came from: the stored payload but for
\* the timestamp field.
Submitted(data) ==
    CHOOSE body \in Payloads(data.seq) :
        [body EXCEPT !.timestamp = data.timestamp] = data

KeepsOwnTimestamp(data) ==
    IF Submitted(data).timestamp.src = "absent"
    THEN data.timestamp.src = "receipt"
    ELSE data.timestamp = Submitted(data).timestamp

\* C16: the receipt timestamp is assigned only to a payload that has none;
\* a payload that arrives with a timestamp keeps it in the stored copy.
C16_TimestampOnlyIfAbsent ==
    /\ \A t \in Threads : stored[t] => KeepsOwnTimestamp(content[t])
    /\ latest_data # Empty => KeepsOwnTimestamp(latest_data)
    /\ latest_raw_data # Empty => KeepsOwnTimestamp(latest_raw_data)

\* The boxes of res that main keeps, in order.
KeptBoxes == SelectSeq(res, LAMBDA box : box.in_ids)

\* This iteration ran in processed mode and has just posted its payload.
PostedProcessed == main = "sleep" /\ ~iteration.raw /\ iteration.posts = 1

\* C17: in processed mode every transmitted centre is (x, frameHeight - y)
\* exactly, where (x, y) is the centre of the detector's box, top-left
\* origin, and frameHeight is the height of the transmitted cropped image,
\* the one sent as crop_shape = [width, height].  (Half pixels.)
C17_FlipByCropHeight ==
    PostedProcessed =>
        /\ payload.image = cropped
        /\ payload.crop_shape = <<cropped.w, cropped.h>>
        /\ Len(payload.detections) = Len(KeptBoxes)
        /\ \A i \in DOMAIN payload.detections :
              LET box == KeptBoxes[i]
                  sent_px == payload.detections[i].center_px
              IN  /\ sent_px[1] = box.x1 + box.x2
                  /\ sent_px[2] = 2 * payload.crop_shape[2] - (box.y1 + box.y2)

\* A payload was posted with a detection whose box lies in the top row of
\* a crop that is taller than wide.
C17_Witness ==
    /\ PostedProcessed
    /\ payload.crop_shape = <<1, 2>>
    /\ Len(payload.detections) = 1
    /\ KeptBoxes[1].y1 = 0 /\ KeptBoxes[1].y2 = 1
    /\ payload.detections[1].center_px = <<1, 3>>

\* C18: an iteration that finds the mode flag set and has captured a frame
\* posts exactly one payload, with raw_image true and no detections, and
\* never calls the detector; every payload an iteration posts in processed
\* mode has raw_image false.
C18_ModesDecidePayload ==
    /\ iteration.raw => iteration.model_calls = 0
    /\ iteration.raw /\ main = "sleep" /\ frame # None =>
          /\ iteration.posts = 1
          /\ payload.raw_image
          /\ payload.detections = <<>>
          /\ payload.image = frame
    /\ ~iteration.raw /\ iteration.posts > 0 => ~payload.raw_image
    /\ iteration.posts <= 1

\* An iteration that found the flag set has posted the camera's frame.
C18_Witness ==
    /\ iteration.raw /\ main = "sleep" /\ iteration.posts = 1
    /\ payload.raw_image
    /\ payload.image = CameraFrame

\* A step of the get_status handler.
StatusStep == get_status_count \/ get_status_timestamp

\* C19: GET /status is a pure read: no step of its handler changes the
\* store or the dispatcher.
C19_StatusIsPureRead ==
    [][StatusStep => UNCHANGED <<storeVars, bleVars>>]_vars

\* /status has been answered with the count and the receipt time of a
\* stored payload that the dispatcher has been given.
C19_Witness ==
    /\ http.path = "/status" /\ http.code = 200
    /\ http.detection_count = 1
    /\ http.timestamp.src = "receipt"
    /\ latest_data # Empty
    /\ sent # <<>>

\* C20: the latest payload of both channels can be fetched from outside:
\* once a raw payload has been stored GET /get_raw answers with it, and
\* GET /get answers with the latest processed payload, or with an empty
\* object when there is none.
C20_BothChannelsServed ==
    [][/\ monitor_get("/get_raw") /\ get_latest_raw_data # Empty =>
              http'.code = 200 /\ http'.data = get_latest_raw_data
       /\ monitor_get("/get") /\ data_store_available =>
              http'.code = 200 /\ http'.data = get_latest_data]_vars

\* main is neither capturing a frame nor about to post one.
LoopAtRest == main \notin {"capture", "raw", "send"}

\* C21: 'quit' at the console exits the program: once command_listener has
\* read 'quit' the capture loop eventually stops for good, and no payload
\* is posted any more.
C21_QuitStopsTheLoop == ~listening ~> []LoopAtRest

\* The flag after n flips.
Flipped(flag, n) == IF n % 2 = 0 THEN flag ELSE ~flag

\* C22: main reads the mode flag once per iteration and the last value
\* wins: an iteration posts at most one payload and its raw_image is the
\* value read; the value read is the value of the read before flipped once
\* per 'raw' command since (two commands leave it as it was; nothing is
\* queued); a step of command_listener changes nothing of main's state but
\* the flag.
C22_FlagSampledOnce ==
    /\ [](/\ iteration.posts <= 1
          /\ iteration.posts = 1 => payload.raw_image = iteration.raw
          /\ main \notin {"capture", "mode"} => iteration.raw = sampled.raw
          /\ sampled.raw = Flipped(sampled.prev, sampled.between)
          /\ send_raw_mode = Flipped(sampled.raw, sampled.toggles))
    /\ [][(\E cmd \in {"raw", "quit"} : command_listener(cmd, MaxToggles)) =>
             UNCHANGED <<main, frame, cropped, res, dets, payload,
                         serverVars>>]_vars

\* Two 'raw' commands arrived between two reads of the flag; the second
\* read found raw mode as the first had, and the iteration posted a raw
\* payload.
C22_Witness ==
    /\ sampled.between = 2
    /\ sampled.prev /\ sampled.raw
    /\ main = "sleep" /\ iteration.posts = 1
    /\ payload.raw_image

\* C23: every iteration of main's loop, in either mode and also when the
\* capture or the crop failed, ends with the inter-frame delay before the
\* next capture; an iteration whose capture failed posts nothing.
C23_DelayAfterEveryIteration ==
    /\ [][main # "capture" /\ main' = "capture" => main = "sleep"]_vars
    /\ [](frame = None => iteration.posts = 0)

\* Every payload the processed channel can have held so far, and {}.
EverLatest ==
    {Empty} \cup
    {Stamp(body, t) : body \in {b \in UNION {MonitoredPayloads(n) : n \in 1..submits} :
                                   ~IsRaw(b)},
                      t \in 0..clock}

\* C24: the detection count and the timestamp of one /status response
\* describe one stored payload: whatever store_data and clear_data calls
\* run beside the query, some processed payload (or the empty store) has
\* both the reported count and the reported timestamp.
C24_StatusDescribesOnePayload ==
    http.path = "/status" /\ http.code = 200 /\ data_store_available =>
        \E data \in EverLatest :
            /\ ~LenDetections(data).raised
            /\ LenDetections(data).value = http.detection_count
            /\ data.timestamp = http.timestamp

\* The payload stored last to the processed channel since the last clear.
LastProcessed == LastOrEmpty(stores_processed)

\* C25: get_detection_count returns the number of detections of the
\* processed channel's latest payload, and 0 when there is none (nothing
\* stored, after clear_data, or a latest payload without a detections
\* field); a store to the raw channel does not change it.
C25_CountOfLatestProcessed ==
    /\ [](LastProcessed.detections # "number" =>
             /\ ~get_detection_count.raised
             /\ get_detection_count.value =
                    IF LastProcessed.detections = "list"
                    THEN LastProcessed.ndet ELSE 0)
    /\ [][Len(stores_raw') > Len(stores_raw) =>
             UNCHANGED get_detection_count]_vars

\* A payload with two detections is the processed channel's latest and a
\* raw payload was stored after it.
C25_Witness ==
    /\ latest_data.seq = 1 /\ latest_data.ndet = 2
    /\ latest_raw_data.seq = 2
    /\ get_detection_count.value = 2

\* The centre of box is at a whole pixel row.
WholeRow(box) == (box.y1 + box.y2) % 2 = 0

\* C26: the producer's flip and the monitor's flip undo each other: for a
\* detection whose detector-space y is an integer, drawn on an image of
\* the height of the transmitted frame, the marker is drawn at row y.
C26_FlipTwiceIsIdentity ==
    PostedProcessed =>
        \A i \in DOMAIN payload.detections :
            WholeRow(KeptBoxes[i]) =>
                draw_detections(payload.image, payload.detections)[i][2]
                    = (KeptBoxes[i].y1 + KeptBoxes[i].y2) \div 2

\* A detection at row 1 of a crop of height 2 was posted as row 1 from the
\* bottom and is drawn at row 1.
C26_Witness ==
    /\ PostedProcessed
    /\ payload.image.h = 2
    /\ Len(payload.detections) = 1
    /\ KeptBoxes[1].y1 = 0 /\ KeptBoxes[1].y2 = 2
    /\ draw_detections(payload.image, payload.detections)[1][2] = 1

\* The POST of this iteration failed.
PostFailed == iteration.outcome \in PostOutcomes \ {"ok"}

\* C27: a failed POST (exception, timeout or a status other than 200)
\* neither ends main's loop nor is repeated: main goes on to the delay and
\* from there to the capture of a new frame, and an iteration posts its
\* frame at most once.
C27_FailedPostNotRetried ==
    /\ [](iteration.posts <= 1)
    /\ [](PostFailed => main \in {"sleep", "capture"} /\ iteration.posts = 1)
    /\ [][main = "sleep" /\ main' # "sleep" => main' = "capture"]_vars
    /\ [](main = "capture" => ENABLED capture_frame)

\* A POST of a processed payload timed out and main is at the delay.
C27_Witness ==
    /\ iteration.outcome = "timeout"
    /\ main = "sleep"
    /\ iteration.posts = 1
    /\ ~payload.raw_image

====
